---- MODULE Spec2Model ----
(***************************************************************************)
(* Sentinel 2 atmospheric correction notebook (Sentinel2_Atmcorr.ipynb).   *)
(*                                                                         *)
(* The notebook is modelled as the state machine of a "Run All" of its     *)
(* code cells in one kernel: scene selection, metadata, the 6S solver      *)
(* object, the per-band function surface_reflectance (with toa_to_rad),    *)
(* the composition of the corrected image and its display.  Kernel         *)
(* variables persist from one run of the notebook to the next.             *)
(*                                                                         *)
(* Numbers.  Python floats are modelled as exact rationals <<n, d>>.  A    *)
(* raster is modelled by one representative pixel; a pixel value is a      *)
(* Laurent polynomial in pi with rational coefficients,                    *)
(* [m1, z, p1] = m1/pi + z + p1*pi, so that math.pi is exact.              *)
(* Timestamps (milliseconds since the epoch) are pairs [s, ms] standing    *)
(* for 1000*s + ms, which keeps them within 32-bit integers.              *)
(***************************************************************************)
EXTENDS Integers, Sequences, FiniteSets, TLC

(***************************************************************************)
(* Rational arithmetic (Python float arithmetic, idealised).               *)
(***************************************************************************)
Abs(x) == IF x < 0 THEN -x ELSE x

RECURSIVE GCD(_, _)
GCD(a, b) == IF b = 0 THEN a ELSE GCD(b, a % b)

RNorm(n, d) ==
    IF n = 0 THEN <<0, 1>>
    ELSE LET g == GCD(Abs(n), Abs(d))
             sg == IF d < 0 THEN -1 ELSE 1
         IN <<sg * (n \div g), sg * (d \div g)>>

R(n, d) == RNorm(n, d)
RInt(n) == <<n, 1>>
RZero == <<0, 1>>
RIsZero(a) == a[1] = 0

RMul(a, b) ==
    IF a[1] = 0 \/ b[1] = 0 THEN RZero
    ELSE LET g1 == GCD(Abs(a[1]), b[2])
             g2 == GCD(Abs(b[1]), a[2])
         IN RNorm((a[1] \div g1) * (b[1] \div g2), (a[2] \div g2) * (b[2] \div g1))

\* a / b for b # 0
RDiv(a, b) == RMul(a, IF b[1] < 0 THEN <<-b[2], -b[1]>> ELSE <<b[2], b[1]>>)

RAdd(a, b) ==
    LET g == GCD(a[2], b[2])
    IN RNorm(a[1] * (b[2] \div g) + b[1] * (a[2] \div g), (a[2] \div g) * b[2])

RNeg(a) == <<-a[1], a[2]>>
RSub(a, b) == RAdd(a, RNeg(b))

(***************************************************************************)
(* Pixel values: m1/pi + z + p1*pi.                                        *)
(***************************************************************************)
PRat(q) == [m1 |-> RZero, z |-> q, p1 |-> RZero]
PZero == PRat(RZero)
\* q / pi
POverPi(q) == [m1 |-> q, z |-> RZero, p1 |-> RZero]
PScale(p, q) == [m1 |-> RMul(p.m1, q), z |-> RMul(p.z, q), p1 |-> RMul(p.p1, q)]
PSub(p, q) == [m1 |-> RSub(p.m1, q.m1), z |-> RSub(p.z, q.z), p1 |-> RSub(p.p1, q.p1)]
PAdd(p, q) == [m1 |-> RAdd(p.m1, q.m1), z |-> RAdd(p.z, q.z), p1 |-> RAdd(p.p1, q.p1)]
\* p * pi, for p without a pi term
PTimesPi(p) == [m1 |-> RZero, z |-> p.m1, p1 |-> p.z]
\* p / pi, for p without a 1/pi term
PDivPi(p) == [m1 |-> p.z, z |-> p.p1, p1 |-> RZero]

(***************************************************************************)
(* Calendar.  A civil time is [y, mo, d, hh, mi, ss, ms] in UTC.           *)
(***************************************************************************)
Civil(y, mo, d, hh, mi, ss, ms) ==
    [y |-> y, mo |-> mo, d |-> d, hh |-> hh, mi |-> mi, ss |-> ss, ms |-> ms]

IsLeap(y) == (y % 4 = 0) /\ ((y % 100 # 0) \/ (y % 400 = 0))

DaysInMonth(y, m) ==
    IF m = 2 THEN (IF IsLeap(y) THEN 29 ELSE 28)
    ELSE IF m \in {4, 6, 9, 11} THEN 30 ELSE 31

RECURSIVE DaysBeforeYear(_)
DaysBeforeYear(y) ==
    IF y <= 1970 THEN 0
    ELSE DaysBeforeYear(y - 1) + (IF IsLeap(y - 1) THEN 366 ELSE 365)

RECURSIVE DaysBeforeMonthOf(_, _)
DaysBeforeMonthOf(y, m) ==
    IF m <= 1 THEN 0 ELSE DaysBeforeMonthOf(y, m - 1) + DaysInMonth(y, m - 1)

\* The catalog's system:time_start (and ee.Date's value) of a civil UTC
\* time: milliseconds since 1970-01-01T00:00:00Z, as [s, ms].
EpochOf(c) ==
    [s  |-> (DaysBeforeYear(c.y) + DaysBeforeMonthOf(c.y, c.mo) + (c.d - 1)) * 86400
            + c.hh * 3600 + c.mi * 60 + c.ss,
     ms |-> c.ms]

TimeLT(a, b) == a.s < b.s \/ (a.s = b.s /\ a.ms < b.ms)
TimeLE(a, b) == a = b \/ TimeLT(a, b)

\* datetime's table of the days before each month of a common year
DAYS_BEFORE_MONTH == <<0, 31, 59, 90, 120, 151, 181, 212, 243, 273, 304, 334>>
DAYS_IN_MONTH == <<31, 28, 31, 30, 31, 30, 31, 31, 30, 31, 30, 31>>

\* datetime._ord2ymd: proleptic Gregorian ordinal (0001-01-01 is 1) to
\* <<year, month, day>>.
Ord2ymd(ordinal) ==
    LET n0   == ordinal - 1
        n400 == n0 \div 146097
        r400 == n0 % 146097
        n100 == r400 \div 36524
        r100 == r400 % 36524
        n4   == r100 \div 1461
        r4   == r100 % 1461
        n1   == r4 \div 365
        n    == r4 % 365
        year == n400 * 400 + 1 + n100 * 100 + n4 * 4 + n1
        leapyear == (n1 = 3) /\ ((n4 # 24) \/ (n100 = 3))
        month0 == (n + 50) \div 32
        prec0 == DAYS_BEFORE_MONTH[month0] + (IF month0 > 2 /\ leapyear THEN 1 ELSE 0)
        month == IF prec0 > n THEN month0 - 1 ELSE month0
        prec  == IF prec0 > n
                 THEN prec0 - (DAYS_IN_MONTH[month] + (IF month = 2 /\ leapyear THEN 1 ELSE 0))
                 ELSE prec0
    IN IF n1 = 4 \/ n100 = 4 THEN <<year - 1, 12, 31>>
       ELSE <<year, month, n - prec + 1>>

\* The proleptic Gregorian ordinal of 1970-01-01.
EpochOrdinal == 719163

\* info['system:time_start']/1000: seconds with a fraction (true division).
MillisToSeconds(t) == [whole |-> t.s, frac_ms |-> t.ms]

\* datetime.datetime.utcfromtimestamp(seconds): the UTC civil time.
utcfromtimestamp(sec) ==
    LET days == sec.whole \div 86400
        rem  == sec.whole % 86400
        ymd  == Ord2ymd(days + EpochOrdinal)
    IN Civil(ymd[1], ymd[2], ymd[3], rem \div 3600, (rem % 3600) \div 60, rem % 60,
             sec.frac_ms)

\* scene_date.timetuple().tm_yday
tm_yday(c) == DAYS_BEFORE_MONTH[c.mo] + (IF c.mo > 2 /\ IsLeap(c.y) THEN 1 ELSE 0) + c.d

\* ee.Date.advance(3, 'month') of a date on the first day of a month
AdvanceMonths(c, k) ==
    LET m0 == (c.mo - 1) + k
    IN [c EXCEPT !.y = c.y + (m0 \div 12), !.mo = (m0 % 12) + 1]

(***************************************************************************)
(* Bands, spectral responses and the environment the notebook reads:       *)
(* the COPERNICUS/S2 catalog and the 6S executable.                        *)
(***************************************************************************)
\* the bands corrected by the notebook
Bands == {"B2", "B3", "B4"}

\* spectralResponseFunction(bandname): the predefined Sentinel 2A response
spectralResponseFunction(bandname) ==
    CASE bandname = "B1"  -> "S2A_MSI_01"
      [] bandname = "B2"  -> "S2A_MSI_02"
      [] bandname = "B3"  -> "S2A_MSI_03"
      [] bandname = "B4"  -> "S2A_MSI_04"
      [] bandname = "B5"  -> "S2A_MSI_05"
      [] bandname = "B6"  -> "S2A_MSI_06"
      [] bandname = "B7"  -> "S2A_MSI_07"
      [] bandname = "B8"  -> "S2A_MSI_08"
      [] bandname = "B9"  -> "S2A_MSI_09"
      [] bandname = "B10" -> "S2A_MSI_10"
      [] bandname = "B11" -> "S2A_MSI_11"
      [] bandname = "B12" -> "S2A_MSI_12"

Wavelengths == {spectralResponseFunction(bn) : bn \in Bands}

\* A scene of the catalog: its true UTC acquisition time, the
\* system:time_start derived from it, whether its footprint holds geom,
\* its metadata and one pixel (digital numbers) per band.  esun_keys are
\* the bands whose SOLAR_IRRADIANCE_<band> property is present.
Scene(id, civil, covers, sz, esun, keys, dn) ==
    [id |-> id, civil |-> civil, time_start |-> EpochOf(civil), covers |-> covers,
     MEAN_SOLAR_ZENITH_ANGLE |-> sz, SOLAR_IRRADIANCE |-> esun, esun_keys |-> keys,
     dn |-> dn]

EsunPlain == [bn \in Bands |-> IF bn = "B2" THEN RInt(1959)
                               ELSE IF bn = "B3" THEN RInt(1823) ELSE RInt(1512)]
EsunFine  == [bn \in Bands |-> IF bn = "B2" THEN R(16129, 8) ELSE EsunPlain[bn]]
DnPlain   == [bn \in Bands |-> IF bn = "B2" THEN 2000
                               ELSE IF bn = "B3" THEN 1500 ELSE 1000]
DnFine    == [bn \in Bands |-> IF bn = "B2" THEN 640 ELSE DnPlain[bn]]

\* S2.getInfo()['properties']: the metadata of a scene
Properties(sc) ==
    [time_start |-> sc.time_start, MEAN_SOLAR_ZENITH_ANGLE |-> sc.MEAN_SOLAR_ZENITH_ANGLE,
     SOLAR_IRRADIANCE |-> sc.SOLAR_IRRADIANCE, esun_keys |-> sc.esun_keys]

\* first() of an empty collection: the null image
NoScene == Scene(0, Civil(1970, 1, 1, 0, 0, 0, 0), FALSE, 0, EsunPlain, {}, DnPlain)

Pool ==
    { Scene(1, Civil(2016, 12, 31, 23, 59, 59, 999), TRUE, 60, EsunPlain, Bands, DnPlain),
      Scene(2, Civil(2017, 1, 1, 0, 0, 0, 0), TRUE, 0, EsunFine, Bands, DnFine),
      Scene(3, Civil(2017, 2, 28, 23, 59, 59, 999), FALSE, 60, EsunPlain, Bands, DnPlain),
      Scene(4, Civil(2017, 3, 31, 23, 59, 59, 999), TRUE, 60, EsunPlain, {"B2", "B4"}, DnPlain),
      Scene(5, Civil(2017, 4, 1, 0, 0, 0, 0), TRUE, 60, EsunPlain, Bands, DnPlain),
      Scene(6, Civil(2016, 2, 29, 23, 59, 59, 999), TRUE, 60, EsunPlain, Bands, DnPlain) }

\* date = ee.Date('2017-01-01'), and two other requests: one reaching a leap
\* day, one whose three months end with the year
DateChoices ==
    { Civil(2017, 1, 1, 0, 0, 0, 0), Civil(2015, 12, 1, 0, 0, 0, 0),
      Civil(2016, 10, 1, 0, 0, 0, 0) }

\* The outputs of one 6S run that the notebook reads.
Out(edir, edif, lp, ab, sc) ==
    [direct_solar_irradiance |-> edir, diffuse_solar_irradiance |-> edif,
     atmospheric_intrinsic_radiance |-> lp, global_gas_upward |-> ab,
     total_scattering_upward |-> sc]

OutClear  == Out(RInt(800), RInt(200), RZero, RInt(1), R(1, 2))
OutHazy   == Out(RInt(800), RInt(100), RInt(5), R(9, 10), R(19, 20))
OutOpaque == Out(RInt(800), RInt(100), RInt(5), RZero, R(19, 20))
OutDark   == Out(RZero, RZero, RInt(5), R(9, 10), R(19, 20))

\* What the 6S executable computes, as a function of the wavelength (the
\* rest of the configuration is fixed by the scene).
SolverChoices ==
    { [w \in Wavelengths |-> IF w = "S2A_MSI_02" THEN OutClear ELSE OutHazy],
      [w \in Wavelengths |-> IF w = "S2A_MSI_02" THEN OutHazy
                             ELSE IF w = "S2A_MSI_03" THEN OutOpaque ELSE OutClear],
      [w \in Wavelengths |-> IF w = "S2A_MSI_02" THEN OutDark
                             ELSE IF w = "S2A_MSI_03" THEN OutClear ELSE OutOpaque] }

(***************************************************************************)
(* Earth Engine collection and image operations used by the notebook.      *)
(***************************************************************************)
\* .filterBounds(geom)
filterBounds(coll) == {sc \in coll : sc.covers}

\* .filterDate(start, end): start inclusive, end exclusive
filterDate(coll, start, end) ==
    {sc \in coll : TimeLE(start, sc.time_start) /\ TimeLT(sc.time_start, end)}

Earlier(a, b) ==
    TimeLT(a.time_start, b.time_start) \/ (a.time_start = b.time_start /\ a.id < b.id)

RECURSIVE SortLatestFirst(_)
SortLatestFirst(coll) ==
    IF coll = {} THEN <<>>
    ELSE LET m == CHOOSE x \in coll : \A y \in coll \ {x} : Earlier(y, x)
         IN <<m>> \o SortLatestFirst(coll \ {m})

\* .sort('system:time_start'): ascending
RECURSIVE sort(_)
sort(coll) ==
    IF coll = {} THEN <<>>
    ELSE LET m == CHOOSE x \in coll : \A y \in coll \ {x} : Earlier(x, y)
         IN <<m>> \o sort(coll \ {m})

\* .first()
first(seq) == IF seq = <<>> THEN NoScene ELSE Head(seq)

\* An image is its sequence of bands; a band is [name, px, run], run being
\* the run of the notebook that computed it.
NoImage == <<>>
addBands(img, other) == img \o other
select(img, names) ==
    [i \in 1..Len(names) |-> img[CHOOSE k \in 1..Len(img) : img[k].name = names[i]]]
HasBands(img, names) == \A i \in 1..Len(names) : \E k \in 1..Len(img) : img[k].name = names[i]

\* image.subtract(number), image.multiply(math.pi)
ImgSubtract(px, q) == PSub(px, PRat(q))
ImgMultiplyPi(px) == PTimesPi(px)
\* image.divide(number): Earth Engine returns 0 for a division by 0
ImgDivide(px, q) == IF RIsZero(q) THEN PZero ELSE PScale(px, RDiv(RInt(1), q))

(***************************************************************************)
(* toa_to_rad and the inversion of surface_reflectance, per pixel.         *)
(***************************************************************************)
\* math.cos(math.radians(solar_z)) at the solar zenith angles of the scenes
CosDeg(deg) == CASE deg = 0 -> RInt(1) [] deg = 60 -> R(1, 2)

\* 1 - 0.01672 * math.cos(0.9856 * (doy-4)) at the days of year of the
\* scenes, to three decimals
EarthSunDistance(doy) ==
    CASE doy = 1   -> R(1016, 1000)
      [] doy = 59  -> R(1012, 1000)
      [] doy = 60  -> R(996, 1000)
      [] doy = 90  -> R(1017, 1000)
      [] doy = 91  -> R(1010, 1000)
      [] doy = 366 -> R(996, 1000)

\* multiplier = ESUN*solar_angle_correction/(math.pi*d**2)
Multiplier(ESUN, sz, sdate) ==
    LET solar_angle_correction == CosDeg(sz)
        doy == tm_yday(sdate)
        d == EarthSunDistance(doy)
    IN POverPi(RDiv(RMul(ESUN, solar_angle_correction), RMul(d, d)))

\* rad = toa.select(bandname).multiply(multiplier)
ToaToRadPx(toaPx, ESUN, sz, sdate) ==
    LET m == Multiplier(ESUN, sz, sdate) IN PScale(m, toaPx)

RadianceToReflectanceNoPi(rad, Lp, tau2, Edir, Edif) ==
    ImgDivide(ImgSubtract(rad, Lp), RMul(tau2, RAdd(Edir, Edif)))

\* ref = rad.subtract(Lp).multiply(math.pi).divide(tau2*(Edir+Edif))
RadianceToReflectance(rad, Lp, tau2, Edir, Edif) ==
    ImgDivide(ImgMultiplyPi(ImgSubtract(rad, Lp)), RMul(tau2, RAdd(Edir, Edif)))

(***************************************************************************)
(* The 6S object.                                                          *)
(***************************************************************************)
NoOutputs == [wl |-> "none", run |-> 0, vals |-> Out(RZero, RZero, RZero, RZero, RZero)]

\* Geometry.User(): a new geometry object with the library's defaults
GeometryUser == [view_z |-> 23, solar_z |-> 32, month |-> 7, day |-> 14]

IsGeometryField(f) == f \in {"geometry.view_z", "geometry.solar_z", "geometry.month", "geometry.day"}

\* SixS(): a new solver object with the library's defaults.  order lists
\* the parameters assigned since, in the order of their assignment; nruns
\* counts the calls of run().
SixS ==
    [atmos_profile |-> "default", aero_profile |-> "default", aot550 |-> "default",
     geometry |-> GeometryUser,
     altitudes |-> [sensor |-> "sea_level", target |-> "sea_level"],
     wavelength |-> "default", outputs |-> NoOutputs,
     order |-> <<>>, nruns |-> 0]

Assigned(obj, f) == [obj EXCEPT !.order = Append(SelectSeq(@, LAMBDA x : x # f), f)]

\* s.geometry = Geometry.User() replaces the geometry object: its fields
\* are unset again
SetGeometry(obj) ==
    Assigned([obj EXCEPT !.geometry = GeometryUser,
                         !.order = SelectSeq(@, LAMBDA x : ~IsGeometryField(x))],
             "geometry")

SetAtmosphere(obj, a) ==
    Assigned(Assigned(Assigned(
        [obj EXCEPT !.atmos_profile = "UserWaterAndOzone(h2o,o3)",
                    !.aero_profile = "Continental",
                    !.aot550 = a.aot],
        "atmos_profile"), "aero_profile"), "aot550")

SetGeometryFields(obj, sz, sdate) ==
    LET g0 == SetGeometry(obj)
        g1 == Assigned([g0 EXCEPT !.geometry.view_z = 0], "geometry.view_z")
        g2 == Assigned([g1 EXCEPT !.geometry.solar_z = sz], "geometry.solar_z")
        g3 == Assigned([g2 EXCEPT !.geometry.month = sdate.mo], "geometry.month")
        g4 == Assigned([g3 EXCEPT !.geometry.day = sdate.d], "geometry.day")
    IN g4

SetAltitudes(obj, a) ==
    LET a1 == Assigned([obj EXCEPT !.altitudes.sensor = "satellite_level"], "altitudes.sensor")
        a2 == Assigned([a1 EXCEPT !.altitudes.target = a.km], "altitudes.target")
    IN a2

ConfigureSixSAltitudesFirst(a, sz, sdate) ==
    SetGeometryFields(SetAltitudes(SetAtmosphere(SixS, a), a), sz, sdate)

\* The cell "6S object": instantiate, atmospheric constituents, geometry,
\* altitudes, in this order.
ConfigureSixS(a, sz, sdate) ==
    SetAltitudes(SetGeometryFields(SetAtmosphere(SixS, a), sz, sdate), a)

\* The parameters of the solver other than the wavelength
SolverConfig(obj) ==
    <<obj.atmos_profile, obj.aero_profile, obj.aot550, obj.geometry, obj.altitudes>>

(***************************************************************************)
(* State.                                                                  *)
(***************************************************************************)
VARIABLES
    date,        \* the requested date (cell "time and place")
    catalog,     \* the scenes of COPERNICUS/S2
    sixs,        \* the 6S executable: wavelength -> outputs
    calls,       \* the calls of surface_reflectance to make: [var, band]
    terrain,     \* what SRTM holds at geom: an elevation, or no data
    S2,          \* the selected scene, NoScene when there is none
    toa,         \* S2.divide(10000): band -> reflectance of the pixel
    info,        \* S2.getInfo()['properties']
    scene_date,  \* the acquisition time of S2 as a datetime
    solar_z,     \* info['MEAN_SOLAR_ZENITH_ANGLE']
    atm,         \* h2o, o3, aot, alt and km; "" while unbound
    s,           \* the 6S object
    frame,       \* the locals of the running surface_reflectance call
    ret,         \* the value returned by the last surface_reflectance call
    rasters,     \* the kernel variables b, g, r
    ref,         \* the composed image
    region,      \* the rectangle the display cell shows, "" while unbound
    original,    \* the thumbnail of toa made by the display cell
    corrected,   \* the thumbnail of ref made by the display cell
    pc,          \* the statement to execute next
    idx,         \* the index in calls of the current call
    run,         \* the number of this run of the notebook
    failed,      \* what raised in this run, "" when nothing did
    invoked,     \* the bands surface_reflectance was invoked for in this run
    writers      \* per global, the bands whose call changed it in this run

vars == <<date, catalog, sixs, calls, terrain, S2, toa, info, scene_date, solar_z, atm, s,
          frame, ret, rasters, ref, region, original, corrected, pc, idx, run, failed,
          invoked, writers>>

env == <<date, catalog, sixs, calls, terrain>>
scene == <<S2, toa, info, scene_date, solar_z, atm>>
thumbs == <<region, original, corrected>>

\* reduceRegion(...).get('elevation').getInfo(): a mean elevation, or None
\* where SRTM has no data
TerrainChoices == {"elevation", "None"}

\* How many times the notebook is run in one kernel
MaxRuns == 2
\* How many calls of surface_reflectance a caller makes (SpecCalls)
MaxCalls == 3

NoFrame ==
    [bandname |-> "", runs0 |-> 0, read |-> NoOutputs,
     Edir |-> RZero, Edif |-> RZero, Lp |-> RZero, absorb |-> RZero, scatter |-> RZero,
     tau2 |-> RZero, rad |-> PZero]

\* The globals a call of surface_reflectance can reach
Globals ==
    [s_wavelength |-> <<s.wavelength>>, s_outputs |-> <<s.outputs>>,
     s_config |-> SolverConfig(s), s_order |-> SelectSeq(s.order, LAMBDA x : x # "wavelength"),
     S2 |-> <<S2>>, toa |-> <<toa>>, info |-> <<info>>,
     scene_date |-> <<scene_date>>, solar_z |-> <<solar_z>>, atm |-> <<atm>>]

GlobalNames == {"s_wavelength", "s_outputs", "s_config", "s_order", "S2", "toa", "info",
                "scene_date", "solar_z", "atm"}

NoWriters == [v \in GlobalNames |-> {}]

\* Records which globals the step of the call for band bn changed.
TrackWrites(bn) ==
    writers' = [v \in GlobalNames |->
                  IF Globals'[v] # Globals[v] THEN writers[v] \cup {bn} ELSE writers[v]]

\* The cell "Atmospheric Correction": b, g, r in this order
Cell11Calls ==
    << [var |-> "b", band |-> "B2"], [var |-> "g", band |-> "B3"], [var |-> "r", band |-> "B4"] >>

InitKernel ==
    /\ S2 = NoScene
    /\ toa = [bn \in Bands |-> RZero]
    /\ info = Properties(NoScene)
    /\ scene_date = NoScene.civil
    /\ solar_z = 0
    /\ atm = [h2o |-> "", o3 |-> "", aot |-> "", alt |-> "", km |-> ""]
    /\ s = SixS
    /\ frame = NoFrame
    /\ ret = NoImage
    /\ rasters = [v \in {"b", "g", "r"} |-> NoImage]
    /\ ref = NoImage
    /\ region = ""
    /\ original = NoImage
    /\ corrected = NoImage
    /\ pc = "cell1"
    /\ idx = 1
    /\ run = 1
    /\ failed = ""
    /\ invoked = <<>>
    /\ writers = NoWriters

Init ==
    /\ date \in DateChoices
    /\ catalog \in SUBSET Pool
    /\ sixs \in SolverChoices
    /\ terrain \in TerrainChoices
    /\ calls = Cell11Calls
    /\ InitKernel

(***************************************************************************)
(* The cells before the correction.                                        *)
(***************************************************************************)
\* ImageCollection.filterBounds(geom).filterDate(date, date.advance(3,'month'))
\*   .sort('system:time_start').first()
SelectScene(coll, dt) ==
    first(sort(filterDate(filterBounds(coll), EpochOf(dt), EpochOf(AdvanceMonths(dt, 3)))))

\* toa = S2.divide(10000)
Divide10000(sc) == [bn \in Bands |-> R(sc.dn[bn], 10000)]

\* The cell "Import modules": the imports, then ee.Initialize(), which
\* answers, or raises and ends the run with the kernel as it was
Cell1_Initialize ==
    /\ pc = "cell1"
    /\ \/ /\ pc' = "cell2"
          /\ UNCHANGED failed
       \/ /\ pc' = "error"
          /\ failed' = "Initialize"
    /\ UNCHANGED <<env, scene, s, frame, ret, rasters, ref, thumbs, idx, run, invoked,
                   writers>>

\* The cell "time and place": date and geom are bound to what the cell
\* names, the same in every run
Cell2_TimeAndPlace ==
    /\ pc = "cell2"
    /\ pc' = "cell3"
    /\ UNCHANGED <<env, scene, s, frame, ret, rasters, ref, thumbs, idx, run, failed,
                   invoked, writers>>

Cell3_SelectScene ==
    /\ pc = "cell3"
    /\ S2' = SelectScene(catalog, date)
    /\ toa' = Divide10000(S2')
    /\ pc' = "cell4"
    /\ UNCHANGED <<env, info, scene_date, solar_z, atm, s, frame, ret, rasters, ref,
                   thumbs, idx, run, failed, invoked, writers>>

SceneDateHonolulu(props) ==
    utcfromtimestamp([whole |-> props.time_start.s - 36000, frac_ms |-> props.time_start.ms])

\* scene_date = datetime.datetime.utcfromtimestamp(info['system:time_start']/1000)
SceneDate(props) == utcfromtimestamp(MillisToSeconds(props.time_start))

\* info = S2.getInfo()['properties']: the request answers, or raises and
\* ends the run; it always raises when first() found no image
Cell4_Metadata ==
    /\ pc = "cell4"
    /\ \/ /\ S2 # NoScene
          /\ info' = Properties(S2)
          /\ scene_date' = SceneDate(info')
          /\ solar_z' = info'.MEAN_SOLAR_ZENITH_ANGLE
          /\ pc' = "cell5"
          /\ UNCHANGED failed
       \/ /\ pc' = "error"
          /\ failed' = "getInfo"
          /\ UNCHANGED <<info, scene_date, solar_z>>
    /\ UNCHANGED <<env, S2, toa, atm, s, frame, ret, rasters, ref, thumbs, idx, run,
                   invoked, writers>>

\* The kernel variables the rest of a cell leaves alone
NotAtm == <<env, S2, toa, info, scene_date, solar_z, s, frame, ret, rasters, ref,
            thumbs, idx, run, invoked, writers>>

\* h2o = Atmospheric.water(geom,date).getInfo(): the request answers, or
\* raises and ends the run
Cell5_Water ==
    /\ pc = "cell5"
    /\ \/ /\ atm' = [atm EXCEPT !.h2o = "water(geom,date)"]
          /\ pc' = "cell5_o3"
          /\ UNCHANGED failed
       \/ /\ pc' = "error"
          /\ failed' = "water"
          /\ UNCHANGED atm
    /\ UNCHANGED NotAtm

\* o3 = Atmospheric.ozone(geom,date).getInfo()
Cell5_Ozone ==
    /\ pc = "cell5_o3"
    /\ \/ /\ atm' = [atm EXCEPT !.o3 = "ozone(geom,date)"]
          /\ pc' = "cell5_aot"
          /\ UNCHANGED failed
       \/ /\ pc' = "error"
          /\ failed' = "ozone"
          /\ UNCHANGED atm
    /\ UNCHANGED NotAtm

\* aot = Atmospheric.aerosol(geom,date).getInfo()
Cell5_Aerosol ==
    /\ pc = "cell5_aot"
    /\ \/ /\ atm' = [atm EXCEPT !.aot = "aerosol(geom,date)"]
          /\ pc' = "cell6"
          /\ UNCHANGED failed
       \/ /\ pc' = "error"
          /\ failed' = "aerosol"
          /\ UNCHANGED atm
    /\ UNCHANGED NotAtm

\* alt = SRTM.reduceRegion(...).get('elevation').getInfo()
Cell6_Elevation ==
    /\ pc = "cell6"
    /\ \/ /\ atm' = [atm EXCEPT !.alt = terrain]
          /\ pc' = "cell6_km"
          /\ UNCHANGED failed
       \/ /\ pc' = "error"
          /\ failed' = "elevation"
          /\ UNCHANGED atm
    /\ UNCHANGED NotAtm

\* km = alt/1000: TypeError when alt is None
Cell6_Km ==
    /\ pc = "cell6_km"
    /\ IF atm.alt = "None"
       THEN /\ pc' = "error"
            /\ failed' = "TypeError"
            /\ UNCHANGED atm
       ELSE /\ atm' = [atm EXCEPT !.km = "alt/1000"]
            /\ pc' = "cell7"
            /\ UNCHANGED failed
    /\ UNCHANGED NotAtm

Cell7_SixS ==
    /\ pc = "cell7"
    /\ s' = ConfigureSixS(atm, solar_z, scene_date)
    /\ pc' = "cell11"
    /\ idx' = 1
    /\ UNCHANGED <<env, scene, frame, ret, rasters, ref, thumbs, run, failed, invoked,
                   writers>>

(***************************************************************************)
(* surface_reflectance(bandname), statement by statement.                  *)
(***************************************************************************)
SetWavelengthOnce(obj, bandname) ==
    IF obj.wavelength # "default" THEN obj
    ELSE Assigned([obj EXCEPT !.wavelength = spectralResponseFunction(bandname)], "wavelength")

SetWavelengthResetsGeometry(obj, bandname) ==
    Assigned([obj EXCEPT !.geometry = GeometryUser,
                         !.order = SelectSeq(@, LAMBDA x : ~IsGeometryField(x)),
                         !.wavelength = spectralResponseFunction(bandname)],
             "wavelength")

\* s.wavelength = spectralResponseFunction(bandname)
SetWavelength(obj, bandname) ==
    Assigned([obj EXCEPT !.wavelength = spectralResponseFunction(bandname)], "wavelength")

SR_SetWavelength ==
    /\ pc = "cell11"
    /\ idx <= Len(calls)
    /\ LET bandname == calls[idx].band
       IN /\ s' = SetWavelength(s, bandname)
          /\ frame' = [NoFrame EXCEPT !.bandname = bandname, !.runs0 = s.nruns]
          /\ invoked' = Append(invoked, bandname)
          /\ pc' = "sr_run"
          /\ UNCHANGED <<env, scene, ret, rasters, ref, thumbs, idx, run, failed>>
          /\ TrackWrites(bandname)

RunSolverCached(obj, exe) ==
    IF obj.outputs.wl # "none" THEN obj
    ELSE [obj EXCEPT !.outputs = [wl |-> obj.wavelength, run |-> obj.nruns + 1,
                                  vals |-> exe[obj.wavelength]],
                     !.nruns = @ + 1]

\* s.run(): the executable runs on the object's parameters and the object
\* holds its outputs
RunSolver(obj, exe) ==
    [obj EXCEPT !.outputs = [wl |-> obj.wavelength, run |-> obj.nruns + 1,
                             vals |-> exe[obj.wavelength]],
                !.nruns = @ + 1]

SR_RunOk ==
    /\ pc = "sr_run"
    /\ s' = RunSolver(s, sixs)
    /\ pc' = "sr_outputs"
    /\ UNCHANGED <<env, scene, frame, ret, rasters, ref, thumbs, idx, run, failed,
                   invoked>>
    /\ TrackWrites(frame.bandname)

SR_RunFailsSwallowed ==
    /\ pc = "sr_run"
    /\ failed' = frame.bandname
    /\ pc' = "cell11"
    /\ idx' = idx + 1
    /\ UNCHANGED <<env, scene, s, frame, ret, rasters, ref, thumbs, run, invoked,
                   writers>>

\* s.run() raises (the executable fails): the exception ends the run of
\* the notebook
SR_RunFails ==
    /\ pc = "sr_run"
    /\ failed' = frame.bandname
    /\ pc' = "error"
    /\ UNCHANGED <<env, scene, s, frame, ret, rasters, ref, thumbs, idx, run, invoked,
                   writers>>

\* Edir, Edif, Lp, absorb, scatter, tau2
ExtractOutputs(fr, obj) ==
    [fr EXCEPT !.read = obj.outputs,
               !.Edir = obj.outputs.vals.direct_solar_irradiance,
               !.Edif = obj.outputs.vals.diffuse_solar_irradiance,
               !.Lp = obj.outputs.vals.atmospheric_intrinsic_radiance,
               !.absorb = obj.outputs.vals.global_gas_upward,
               !.scatter = obj.outputs.vals.total_scattering_upward,
               !.tau2 = RMul(obj.outputs.vals.global_gas_upward,
                             obj.outputs.vals.total_scattering_upward)]

SR_Extract ==
    /\ pc = "sr_outputs"
    /\ frame' = ExtractOutputs(frame, s)
    /\ pc' = "sr_invert"
    /\ UNCHANGED <<env, scene, s, ret, rasters, ref, thumbs, idx, run, failed, invoked>>
    /\ TrackWrites(frame.bandname)

\* toa_to_rad(bandname): the radiance of the pixel; info['SOLAR_IRRADIANCE_<band>']
\* raises KeyError when the property is missing
toa_to_rad(bandname) ==
    ToaToRadPx(toa[bandname], info.SOLAR_IRRADIANCE[bandname], solar_z, scene_date)

SR_Invert ==
    /\ pc = "sr_invert"
    /\ IF frame.bandname \notin info.esun_keys
       THEN /\ pc' = "error"
            /\ failed' = frame.bandname
            /\ UNCHANGED <<frame, ret>>
       ELSE LET rad == toa_to_rad(frame.bandname)
                px  == RadianceToReflectance(rad, frame.Lp, frame.tau2, frame.Edir, frame.Edif)
            IN /\ frame' = [frame EXCEPT !.rad = rad]
               /\ ret' = << [name |-> frame.bandname, px |-> px, run |-> run] >>
               /\ pc' = "sr_return"
               /\ UNCHANGED failed
    /\ UNCHANGED <<env, scene, s, rasters, ref, thumbs, idx, run, invoked>>
    /\ TrackWrites(frame.bandname)

(***************************************************************************)
(* The correction cell, the display cell, and running the notebook again.  *)
(***************************************************************************)
\* b = ..., g = ..., r = ...: the returned raster is bound to the variable
Cell11_Assign ==
    /\ pc = "sr_return"
    /\ calls[idx].var \in DOMAIN rasters
    /\ rasters' = [rasters EXCEPT ![calls[idx].var] = ret]
    /\ idx' = idx + 1
    /\ pc' = "cell11"
    /\ UNCHANGED <<env, scene, s, frame, ret, ref, thumbs, run, failed, invoked, writers>>

ComposeBGR(rs) == addBands(addBands(rs["b"], rs["g"]), rs["r"])

\* ref = r.addBands(g).addBands(b)
Compose(rs) == addBands(addBands(rs["r"], rs["g"]), rs["b"])

\* a variable never assigned raises NameError
Cell11_Compose ==
    /\ pc = "cell11"
    /\ idx > Len(calls)
    /\ IF \E v \in DOMAIN rasters : rasters[v] = NoImage
       THEN /\ pc' = "error"
            /\ failed' = "NameError"
            /\ UNCHANGED ref
       ELSE /\ ref' = Compose(rasters)
            /\ pc' = "cell12"
            /\ UNCHANGED failed
    /\ UNCHANGED <<env, scene, s, frame, ret, rasters, thumbs, idx, run, invoked, writers>>

\* channels = ['B4','B3','B2']
channels == <<"B4", "B3", "B2">>

\* The kernel variables the display cell leaves alone
NotThumbs == <<env, scene, s, frame, ret, rasters, ref, idx, run, invoked, writers>>

\* region = geom.buffer(5000).bounds().getInfo()['coordinates']: the
\* request answers, or raises and ends the run
Cell12_Region ==
    /\ pc = "cell12"
    /\ \/ /\ region' = "buffer(5000).bounds()"
          /\ pc' = "cell12_original"
          /\ UNCHANGED failed
       \/ /\ pc' = "error"
          /\ failed' = "region"
          /\ UNCHANGED region
    /\ UNCHANGED <<NotThumbs, original, corrected>>

\* toa as an image of this run: the bands of the scene in the catalog's order
ToaImage ==
    LET names == <<"B2", "B3", "B4">>
    IN [i \in 1..Len(names) |-> [name |-> names[i], px |-> PRat(toa[names[i]]), run |-> run]]

\* original = Image(url=toa.select(channels).getThumbUrl(...)): the first
\* request that has the server compute toa
Cell12_Original ==
    /\ pc = "cell12_original"
    /\ \/ /\ original' = select(ToaImage, channels)
          /\ pc' = "cell12_corrected"
          /\ UNCHANGED failed
       \/ /\ pc' = "error"
          /\ failed' = "original"
          /\ UNCHANGED original
    /\ UNCHANGED <<NotThumbs, region, corrected>>

\* corrected = Image(url=ref.select(channels).getThumbUrl(...)): the first
\* request that has the server compute ref
Cell12_Corrected ==
    /\ pc = "cell12_corrected"
    /\ \/ /\ corrected' = select(ref, channels)
          /\ pc' = "cell12_display"
          /\ UNCHANGED failed
       \/ /\ pc' = "error"
          /\ failed' = "corrected"
          /\ UNCHANGED corrected
    /\ UNCHANGED <<NotThumbs, region, original>>

\* display(original, corrected)
Cell12_Display ==
    /\ pc = "cell12_display"
    /\ pc' = "done"
    /\ UNCHANGED <<NotThumbs, thumbs, failed>>

\* The notebook is run again in the same kernel, from its first cell: its
\* variables persist.
Rerun ==
    /\ pc \in {"done", "error"}
    /\ run < MaxRuns
    /\ run' = run + 1
    /\ pc' = "cell1"
    /\ idx' = 1
    /\ failed' = ""
    /\ invoked' = <<>>
    /\ writers' = NoWriters
    /\ frame' = NoFrame
    /\ ret' = NoImage
    /\ UNCHANGED <<env, scene, s, rasters, ref, thumbs>>

Next ==
    \/ Cell1_Initialize
    \/ Cell2_TimeAndPlace
    \/ Cell3_SelectScene
    \/ Cell4_Metadata
    \/ Cell5_Water
    \/ Cell5_Ozone
    \/ Cell5_Aerosol
    \/ Cell6_Elevation
    \/ Cell6_Km
    \/ Cell7_SixS
    \/ SR_SetWavelength
    \/ SR_RunOk
    \/ SR_RunFails
    \/ SR_Extract
    \/ SR_Invert
    \/ Cell11_Assign
    \/ Cell11_Compose
    \/ Cell12_Region
    \/ Cell12_Original
    \/ Cell12_Corrected
    \/ Cell12_Display
    \/ Rerun

Spec == Init /\ [][Next]_vars

(***************************************************************************)
(* surface_reflectance called by an arbitrary caller: any sequence of      *)
(* calls, for any bands, on the one solver object.                         *)
(***************************************************************************)
RECURSIVE CallSeqs(_)
CallSeqs(n) ==
    IF n = 0 THEN {<<>>}
    ELSE LET shorter == CallSeqs(n - 1)
         IN shorter \cup {Append(q, [var |-> "_", band |-> bn]) :
                            q \in {x \in shorter : Len(x) = n - 1}, bn \in Bands}

InitCalls ==
    /\ date \in DateChoices
    /\ catalog \in {{sc} : sc \in Pool} \cup {Pool}
    /\ sixs \in SolverChoices
    /\ terrain \in TerrainChoices
    /\ calls \in CallSeqs(MaxCalls) \ {<<>>}
    /\ InitKernel

\* The caller drops the returned raster and goes on to its next call.
CallReturns ==
    /\ pc = "sr_return"
    /\ idx' = idx + 1
    /\ pc' = "cell11"
    /\ UNCHANGED <<env, scene, s, frame, ret, rasters, ref, thumbs, run, failed,
                   invoked, writers>>

NextCalls ==
    \/ Cell1_Initialize
    \/ Cell2_TimeAndPlace
    \/ Cell3_SelectScene
    \/ Cell4_Metadata
    \/ Cell5_Water
    \/ Cell5_Ozone
    \/ Cell5_Aerosol
    \/ Cell6_Elevation
    \/ Cell6_Km
    \/ Cell7_SixS
    \/ SR_SetWavelength
    \/ SR_RunOk
    \/ SR_RunFails
    \/ SR_Extract
    \/ SR_Invert
    \/ CallReturns

SpecCalls == InitCalls /\ [][NextCalls]_vars

(***************************************************************************)
(* Properties.                                                             *)
(***************************************************************************)
BandNames(img) == [i \in 1..Len(img) |-> img[i].name]
Reverse(q) == [i \in 1..Len(q) |-> q[Len(q) + 1 - i]]
OfThisRun(img) == \E i \in 1..Len(img) : img[i].run = run
\* ref was composed in this run
Composed == OfThisRun(ref)

\* C1 (as stated): the bands of the composed image are in the order in
\* which surface_reflectance was invoked for them.
C1_BandOrderIsInvocationOrder == Composed => BandNames(ref) = invoked

\* C1 (amended): the bands of the composed image are in the order in which
\* the rasters are chained by addBands (r, g, b: B4, B3, B2), the reverse
\* of the order in which surface_reflectance was invoked for them.
C1_BandOrderIsChainOrder ==
    Composed => /\ BandNames(ref) = <<"B4", "B3", "B2">>
                /\ BandNames(ref) = Reverse(invoked)

C1_Witness ==
    /\ pc = "cell12"
    /\ invoked = <<"B2", "B3", "B4">>
    /\ BandNames(ref) = <<"B4", "B3", "B2">>

Denominator(fr) == RMul(RMul(fr.absorb, fr.scatter), RAdd(fr.Edir, fr.Edif))

\* C2: when the solver outputs give tau = 0 or Edir + Edif = 0,
\* surface_reflectance raises for that band and returns no raster.
C2_DegenerateRaises ==
    ~(pc = "sr_return" /\ RIsZero(Denominator(frame)) /\ ret # NoImage)

\* C3 (as stated): no global written while one band is processed is
\* written while another band is processed.
C3_NoSharedWrites == \A v \in GlobalNames : Cardinality(writers[v]) <= 1

\* C3 (amended): the band pipelines share the solver object: each of them
\* writes its wavelength and its outputs, and they write nothing else (the
\* scene context and the solver's other parameters are only read).
C3_OnlySolverShared ==
    /\ \A v \in GlobalNames \ {"s_wavelength", "s_outputs"} : writers[v] = {}
    /\ Composed => writers["s_wavelength"] = Bands /\ writers["s_outputs"] = Bands

C3_Witness ==
    /\ pc = "cell12"
    /\ writers["s_wavelength"] = Bands
    /\ writers["s_outputs"] = Bands
    /\ writers["solar_z"] = {}

Pos(q, x) == CHOOSE i \in 1..Len(q) : q[i] = x
InSeq(q, x) == \E i \in 1..Len(q) : q[i] = x
GeometryFields == {"geometry.view_z", "geometry.solar_z", "geometry.month", "geometry.day"}
AltitudeFields == {"altitudes.sensor", "altitudes.target"}
SolverInvoked == pc \in {"sr_run", "sr_outputs"}

\* C4: at every invocation of the solver the four geometry fields and both
\* altitudes are set, every geometry field before either altitude.
C4_GeometryBeforeAltitudes ==
    SolverInvoked =>
        /\ \A f \in GeometryFields \cup AltitudeFields : InSeq(s.order, f)
        /\ \A f \in GeometryFields : \A a \in AltitudeFields : Pos(s.order, f) < Pos(s.order, a)
        /\ s.altitudes = [sensor |-> "satellite_level", target |-> atm.km]

C4_Witness ==
    /\ pc = "sr_run"
    /\ idx = 3
    /\ \A f \in GeometryFields : Pos(s.order, f) < Pos(s.order, "altitudes.sensor")

\* C5: at every invocation of the solver, its month and day are the UTC
\* calendar month and day of the acquisition of the selected scene.
C5_MonthDayOfScene ==
    SolverInvoked => s.geometry.month = S2.civil.mo /\ s.geometry.day = S2.civil.d

C5_Witness ==
    /\ pc = "sr_run"
    /\ S2.civil.y = 2016 /\ S2.civil.mo = 2 /\ S2.civil.d = 29 /\ S2.civil.hh = 23
    /\ s.geometry.month = 2 /\ s.geometry.day = 29
    /\ date.mo = 12

OnOrAfter(coll, dt) == {sc \in coll : sc.covers /\ TimeLE(EpochOf(dt), sc.time_start)}
ThreeMonthsLater(dt) ==
    IF dt.mo <= 9 THEN [dt EXCEPT !.mo = @ + 3] ELSE [dt EXCEPT !.y = @ + 1, !.mo = @ - 9]
InWindow(coll, dt) ==
    {sc \in OnOrAfter(coll, dt) : TimeLT(sc.time_start, EpochOf(ThreeMonthsLater(dt)))}
EarliestOf(sc, cands) ==
    sc \in cands /\ \A o \in cands : ~TimeLT(o.time_start, sc.time_start)
NeverBefore == S2 # NoScene => ~TimeLT(S2.time_start, EpochOf(date))

\* C6 (as stated): when a scene covering the point is acquired at or after
\* the date, the earliest such scene is selected; never one before the date.
C6_FirstOnOrAfter ==
    pc = "cell4" =>
        /\ OnOrAfter(catalog, date) # {} => EarliestOf(S2, OnOrAfter(catalog, date))
        /\ NeverBefore

\* C6 (amended): when a scene covering the point is acquired at or after
\* the date and before the date advanced by three months, the earliest
\* such scene is selected; otherwise no scene is selected; never one
\* acquired before the date.
C6_FirstInWindow ==
    pc = "cell4" =>
        /\ InWindow(catalog, date) # {} => EarliestOf(S2, InWindow(catalog, date))
        /\ InWindow(catalog, date) = {} => S2 = NoScene
        /\ NeverBefore

C6_Witness ==
    /\ pc = "cell4"
    /\ Cardinality(InWindow(catalog, date)) >= 2
    /\ Cardinality(catalog \ InWindow(catalog, date)) >= 2
    /\ EarliestOf(S2, InWindow(catalog, date))

\* surface_reflectance raised for a band in this run
BandFailed == failed \in Bands
AllBandsDone ==
    /\ idx > Len(calls)
    /\ \A i \in 1..Len(calls) :
          /\ rasters[calls[i].var] # NoImage
          /\ rasters[calls[i].var][1].run = run
          /\ rasters[calls[i].var][1].name = calls[i].band

\* C7: the composed image is emitted only after surface_reflectance has
\* completed for every band; when it fails for a band, the run composes
\* and shows no image; the image shown at the end of a run is of that run.
C7_NoPartialComposite ==
    /\ BandFailed => ~OfThisRun(ref) /\ ~OfThisRun(corrected)
    /\ OfThisRun(ref) => AllBandsDone /\ Len(ref) = Len(calls)
    /\ OfThisRun(corrected) => OfThisRun(ref)
    /\ pc \in {"cell12_display", "done"} => failed = "" /\ OfThisRun(corrected)

C7_Witness ==
    /\ pc = "error"
    /\ failed = "B3"
    /\ run = 2
    /\ ref # NoImage
    /\ ~OfThisRun(ref)
    /\ rasters["b"][1].run = 2

ExpectedPx(bn) ==
    LET o == sixs[spectralResponseFunction(bn)]
    IN RadianceToReflectance(toa_to_rad(bn), o.atmospheric_intrinsic_radiance,
                             RMul(o.global_gas_upward, o.total_scattering_upward),
                             o.direct_solar_irradiance, o.diffuse_solar_irradiance)

\* C8: the raster surface_reflectance(X) returns depends on X, the scene
\* and the solver alone, whatever calls were made before on the same
\* solver object.
C8_OrderIrrelevant ==
    pc = "sr_return" =>
        ret = << [name |-> calls[idx].band, px |-> ExpectedPx(calls[idx].band), run |-> run] >>

C8_Witness ==
    /\ pc = "sr_return"
    /\ idx = 3
    /\ calls[1].band # calls[2].band
    /\ calls[3].band = calls[1].band
    /\ sixs[spectralResponseFunction(calls[1].band)] # sixs[spectralResponseFunction(calls[2].band)]
    /\ ret[1].px = ExpectedPx(calls[1].band)

\* The forward model L = tau*rho*(Edir+Edif)/pi + Lp, multiplied by pi
ForwardHolds(rho, fr) ==
    PAdd(PScale(rho, Denominator(fr)), PTimesPi(PRat(fr.Lp))) = PTimesPi(fr.rad)

RhoSet == {PRat(R(1, 10)), PRat(R(1, 4)), PRat(R(1, 2))}

\* C9: when tau*(Edir+Edif) is not zero, the returned reflectance solves
\* the forward model for the radiance of toa_to_rad, and it is the rho for
\* which that radiance equals the forward model.
C9_RoundTrip ==
    (pc = "sr_return" /\ ~RIsZero(Denominator(frame))) =>
        /\ ForwardHolds(ret[1].px, frame)
        /\ \A rho \in RhoSet : ForwardHolds(rho, frame) => ret[1].px = rho

C9_Witness ==
    /\ pc = "sr_return"
    /\ ~RIsZero(Denominator(frame))
    /\ ForwardHolds(PRat(R(1, 4)), frame)
    /\ ret[1].px = PRat(R(1, 4))

\* C10: each call runs the solver exactly once, after setting the
\* wavelength to the band's spectral response, and inverts with the
\* outputs of that very run.
C10_OwnRun ==
    /\ pc = "sr_run" => s.wavelength = spectralResponseFunction(frame.bandname)
                        /\ s.nruns = frame.runs0
    /\ pc \in {"sr_outputs", "sr_invert", "sr_return"} =>
          /\ s.nruns = frame.runs0 + 1
          /\ s.outputs.run = s.nruns
          /\ s.outputs.wl = spectralResponseFunction(frame.bandname)
    /\ pc \in {"sr_invert", "sr_return"} =>
          /\ frame.read = s.outputs
          /\ frame.read.vals = sixs[spectralResponseFunction(frame.bandname)]
          /\ Out(frame.Edir, frame.Edif, frame.Lp, frame.absorb, frame.scatter) = frame.read.vals

C10_Witness ==
    /\ pc = "sr_return"
    /\ idx = 2
    /\ frame.read.run = 2
    /\ frame.read.wl = "S2A_MSI_03"
    /\ frame.read.vals # sixs["S2A_MSI_02"]

====
